---- MODULE Spec2Model ----
(***************************************************************************)
(* Command-line argument assembly (buck2 `cmd_args`): the dispatch of a    *)
(* value to its argument-like capability, the `cmd_args` constructor, the  *)
(* construct / add / freeze / resolve lifecycle of a Command-Line Value    *)
(* and the rendering of its items into the flat argument list.             *)
(*                                                                         *)
(* Strings are sequences of one-character strings, so that formatting,     *)
(* joining and quoting are computed and not assumed.                       *)
(***************************************************************************)
EXTENDS Integers, Sequences, FiniteSets, TLC

VARIABLES
    val,     \* dispatch: the value under dispatch
    dres,    \* dispatch: the last dispatch operation and what it returned
    cl,      \* lifecycle: the Command-Line Value (NoValue before construction)
    given,   \* lifecycle: the values the caller passed to cmd_args and add, in order
    call,    \* lifecycle: the options the caller passed to cmd_args
    last,    \* lifecycle: the last operation and what it returned
    shared,  \* concurrency: the frozen Command-Line Value the resolutions share
    rs       \* concurrency: each resolution's position, context and private cli

vars == <<val, dres, cl, given, call, last, shared, rs>>

---------------------------------------------------------------------------
(* Bounds *)

\* longest argument list passed to one cmd_args call
MaxArgs == 2
\* most items a Command-Line Value holds (cmd_args plus add)
MaxItems == 2
\* most items of the shared value of the concurrent resolutions
MaxShared == 2
\* concurrent resolutions of the shared value
NumResolvers == 2

---------------------------------------------------------------------------
(* Option<T> and Result<T> *)

None == <<>>
Some(x) == <<x>>
IsSome(o) == Len(o) = 1
Unwrap(o) == o[1]

NoError == [kind |-> "none", repr |-> <<>>]
\* CommandLineArgError::InvalidItemType { repr }
InvalidItemType(repr) == [kind |-> "InvalidItemType", repr |-> repr]
QuoteParseError(text) == [kind |-> "QuoteStyleParse", repr |-> text]
ContextLookupError(text) == [kind |-> "ContextLookup", repr |-> text]
FrozenMutationError == [kind |-> "FrozenMutation", repr |-> <<>>]

\* anyhow::Result<Vec<String>>
Ok(cli) == [tag |-> "Ok", cli |-> cli, err |-> NoError]
Err(e) == [tag |-> "Err", cli |-> <<>>, err |-> e]
NoResult == [tag |-> "none", cli |-> <<>>, err |-> NoError]

---------------------------------------------------------------------------
(* Strings *)

s_a == <<"a">>
s_b == <<"b">>
s_a_b == <<"a", " ", "b">>
s_x == <<"x">>
s_y == <<"y">>
s_one == <<"1">>
s_label == <<"/", "/", "t">>
s_I == <<"-", "I">>
s_comma == <<",">>
s_empty == <<>>
s_shell == <<"s", "h", "e", "l", "l">>
s_bogus == <<"z", "s", "h">>
s_template == <<"-", "-", "=", "{", "}">>

RECURSIVE Flatten(_)
Flatten(ss) == IF ss = <<>> THEN <<>> ELSE Head(ss) \o Flatten(Tail(ss))


---------------------------------------------------------------------------
(* Values of the embedding language, as far as dispatch looks at them *)

\* The options of a Command-Line Value; every other value carries NoOptions.
NoOptions == [delimiter |-> None, format |-> None, prepend |-> None, quote |-> None]

\* type:     the concrete type a downcast tests
\* strs:     the strings the value stands for (text, arguments, path name)
\* elems:    the elements of a list, the items of a Command-Line Value
\* provides: whether the value's own `provide` hands out CommandLineArgLike
\* opts:     the rendering options of a Command-Line Value
MkValue(type, strs, elems, provides, opts) ==
    [type |-> type, strs |-> strs, elems |-> elems, provides |-> provides, opts |-> opts]

NoValue == MkValue("none", <<>>, <<>>, FALSE, NoOptions)

StrValue(s) == MkValue("str", <<s>>, <<>>, FALSE, NoOptions)
IntValue(s) == MkValue("int", <<s>>, <<>>, FALSE, NoOptions)
ListValue(elems) == MkValue("list", <<>>, elems, FALSE, NoOptions)
ArtifactValue(name) == MkValue("StarlarkArtifact", <<name>>, <<>>, TRUE, NoOptions)
RunInfoValue(args) == MkValue("RunInfo", args, <<>>, FALSE, NoOptions)
LabelValue(s) == MkValue("StarlarkTargetLabel", <<s>>, <<>>, FALSE, NoOptions)

\* The types named by the two dispatchers, their mutable counterparts, and
\* three types outside them: a number, a list, and a kind defined elsewhere.
Types ==
    {"str", "int", "list", "External",
     "RunInfo", "FrozenRunInfo", "LabelRelativePath", "StarlarkTargetLabel",
     "StarlarkCommandLine", "FrozenStarlarkCommandLine",
     "StarlarkArtifact", "StarlarkOutputArtifact", "FrozenStarlarkOutputArtifact",
     "ResolvedStringWithMacros",
     "TransitiveSetArgsProjection", "FrozenTransitiveSetArgsProjection"}

CommandLineTypes == {"StarlarkCommandLine", "FrozenStarlarkCommandLine"}
ArtifactTypes == {"StarlarkArtifact", "StarlarkOutputArtifact", "FrozenStarlarkOutputArtifact"}
MultiStringTypes ==
    {"RunInfo", "FrozenRunInfo", "External",
     "TransitiveSetArgsProjection", "FrozenTransitiveSetArgsProjection"}

\* One value of each type and each answer of its `provide`.
SampleValue(type, provides) ==
    IF type \in CommandLineTypes
        THEN MkValue(type, <<>>, <<StrValue(s_a), ListValue(<<StrValue(s_a), StrValue(s_b)>>)>>,
                     provides, [NoOptions EXCEPT !.delimiter = Some(s_comma)])
    ELSE IF type = "list"
        THEN MkValue(type, <<>>, <<StrValue(s_a), StrValue(s_b)>>, provides, NoOptions)
    ELSE IF type \in MultiStringTypes
        THEN MkValue(type, <<s_x, s_y>>, <<>>, provides, NoOptions)
    ELSE IF type = "int"
        THEN MkValue(type, <<s_one>>, <<>>, provides, NoOptions)
    ELSE IF type = "StarlarkTargetLabel"
        THEN MkValue(type, <<s_label>>, <<>>, provides, NoOptions)
    ELSE MkValue(type, <<s_a>>, <<>>, provides, NoOptions)

Values == {SampleValue(t, p) : t \in Types, p \in BOOLEAN}

\* Value::to_repr: a string in quotes, a number as its digits, any other
\* value as its type name and strings.
to_repr(v) ==
    IF v.type = "str" THEN <<"\"">> \o v.strs[1] \o <<"\"">>
    ELSE IF v.type = "int" THEN v.strs[1]
    ELSE <<"<", v.type>> \o Flatten(v.strs) \o <<">">>

---------------------------------------------------------------------------
(* Dispatch: mod.rs, ValueAsCommandLineLike and ValueAsFrozenCommandLineLike *)

\* &dyn CommandLineArgLike: the object, and the mechanism that produced it
Handle(via, v) == [via |-> via, obj |-> v]
NoHandle == Handle("none", NoValue)

HandleOk(h) == [tag |-> "Ok", handle |-> h, err |-> NoError]
HandleErr(e) == [tag |-> "Err", handle |-> NoHandle, err |-> e]
NoHandleResult == [tag |-> "none", handle |-> NoHandle, err |-> NoError]

unpack_starlark_str(v) == IF v.type = "str" THEN Some(v) ELSE None
downcast_ref(v, type) == IF v.type = type THEN Some(v) ELSE None
\* Value::request_value::<&dyn CommandLineArgLike>()
request_value(v) == IF v.provides THEN Some(Handle("request_value", v)) ELSE None

\* The `check!` list of as_command_line, in source order.
MutableChecks == <<"RunInfo", "FrozenRunInfo", "LabelRelativePath", "StarlarkTargetLabel">>

\* The `check!` macro over a list of types: the first downcast that succeeds.
RECURSIVE check_from(_, _, _, _)
check_from(v, checks, i, via) ==
    IF i > Len(checks) THEN None
    ELSE IF IsSome(downcast_ref(v, checks[i])) THEN Some(Handle(via, v))
    ELSE check_from(v, checks, i + 1, via)

\* Faulty variant: the value's own capability is asked first.
as_command_line_fallback_first(v) ==
    IF IsSome(request_value(v)) THEN request_value(v)
    ELSE IF IsSome(unpack_starlark_str(v)) THEN Some(Handle("unpack_starlark_str", v))
    ELSE check_from(v, MutableChecks, 1, "downcast_ref")

as_command_line(v) ==
    IF IsSome(unpack_starlark_str(v)) THEN Some(Handle("unpack_starlark_str", v))
    ELSE IF IsSome(check_from(v, MutableChecks, 1, "downcast_ref"))
        THEN check_from(v, MutableChecks, 1, "downcast_ref")
    ELSE request_value(v)

\* Faulty variant: a value without the capability is taken as its own text.
as_command_line_err_coerces(v) ==
    IF IsSome(as_command_line(v)) THEN HandleOk(Unwrap(as_command_line(v)))
    ELSE HandleOk(Handle("to_str", v))

as_command_line_err(v) ==
    IF IsSome(as_command_line(v)) THEN HandleOk(Unwrap(as_command_line(v)))
    ELSE HandleErr(InvalidItemType(to_repr(v)))

\* The `check!` list of as_frozen_command_line, in source order.
FrozenChecks ==
    <<"FrozenStarlarkCommandLine", "StarlarkArtifact", "FrozenStarlarkOutputArtifact",
      "ResolvedStringWithMacros", "FrozenRunInfo", "LabelRelativePath",
      "FrozenTransitiveSetArgsProjection">>

\* Faulty variant: the frozen dispatch ends, like the mutable one, in request_value.
as_frozen_command_line_with_fallback(fv) ==
    IF IsSome(unpack_starlark_str(fv)) THEN Some(Handle("downcast_frozen_starlark_str", fv))
    ELSE IF IsSome(check_from(fv, FrozenChecks, 1, "downcast_frozen_ref"))
        THEN check_from(fv, FrozenChecks, 1, "downcast_frozen_ref")
    ELSE request_value(fv)

as_frozen_command_line(fv) ==
    IF IsSome(unpack_starlark_str(fv)) THEN Some(Handle("downcast_frozen_starlark_str", fv))
    ELSE check_from(fv, FrozenChecks, 1, "downcast_frozen_ref")

---------------------------------------------------------------------------
(* Rendering options: options.rs *)

\* QuoteStyle::parse: "shell" is the only quoting mode.
QuoteStyleOk(style) == [tag |-> "Ok", style |-> style, err |-> NoError]
QuoteStyleErr(e) == [tag |-> "Err", style |-> None, err |-> e]

QuoteStyle_parse(text) ==
    IF text = s_shell THEN QuoteStyleOk(Some("Shell")) ELSE QuoteStyleErr(QuoteParseError(text))

\* Option::try_map(QuoteStyle::parse): an absent quote is no quoting and
\* cannot fail.
try_map_parse(quote) ==
    IF IsSome(quote) THEN QuoteStyle_parse(Unwrap(quote)) ELSE QuoteStyleOk(None)

\* `format`: the argument replaces the template's substitution point "{}".
RECURSIVE Format(_, _)
Format(template, s) ==
    IF template = <<>> THEN <<>>
    ELSE IF Len(template) >= 2 /\ template[1] = "{" /\ template[2] = "}"
        THEN s \o Format(SubSeq(template, 3, Len(template)), s)
    ELSE <<Head(template)>> \o Format(Tail(template), s)

\* `delimiter`: the strings joined into one, the delimiter between neighbours.
RECURSIVE Join(_, _)
Join(strs, delimiter) ==
    IF strs = <<>> THEN <<>>
    ELSE IF Len(strs) = 1 THEN strs[1]
    ELSE strs[1] \o delimiter \o Join(Tail(strs), delimiter)

\* Shell quoting: a string of safe characters is left alone, any other is put
\* in single quotes with each single quote inside it closed, escaped and
\* reopened.
UnsafeChars == {" ", "'", "\"", "$", "{", "}"}

RECURSIVE EscapeSingleQuotes(_)
EscapeSingleQuotes(s) ==
    IF s = <<>> THEN <<>>
    ELSE IF Head(s) = "'" THEN <<"'", "\\", "'", "'">> \o EscapeSingleQuotes(Tail(s))
    ELSE <<Head(s)>> \o EscapeSingleQuotes(Tail(s))

ShellQuote(s) ==
    IF s # <<>> /\ \A i \in 1..Len(s) : s[i] \notin UnsafeChars THEN s
    ELSE <<"'">> \o EscapeSingleQuotes(s) \o <<"'">>

QuoteArg(quote, s) == IF quote = Some("Shell") THEN ShellQuote(s) ELSE s

\* `prepend`: the token as an argument of its own before each argument.
RECURSIVE Prepend(_, _)
Prepend(token, args) ==
    IF args = <<>> THEN <<>> ELSE <<token, Head(args)>> \o Prepend(token, Tail(args))

\* The arguments one item contributes, from the raw strings it expands to:
\* format each, join under a delimiter, prepend, quote last.
RenderItem(raws, opts) ==
    LET formatted == IF IsSome(opts.format)
                         THEN [i \in 1..Len(raws) |-> Format(Unwrap(opts.format), raws[i])]
                         ELSE raws
        delimited == IF IsSome(opts.delimiter)
                         THEN <<Join(formatted, Unwrap(opts.delimiter))>>
                         ELSE formatted
        prepended == IF IsSome(opts.prepend)
                         THEN Prepend(Unwrap(opts.prepend), delimited)
                         ELSE delimited
    IN [i \in 1..Len(prepended) |-> QuoteArg(opts.quote, prepended[i])]

---------------------------------------------------------------------------
(* Resolution context and the renderer: builder.rs, traits.rs *)

\* PathSeparatorKind
Contexts == {[sep |-> "/"], [sep |-> "\\"]}
UnixContext == [sep |-> "/"]

\* The path of an artifact under the output root; only a structurally invalid
\* (empty) identity fails.
path_for(ctx, name) ==
    IF name = <<>> THEN Err(ContextLookupError(name))
    ELSE Ok(<< <<"o", ctx.sep>> \o name >>)

RECURSIVE expand(_, _)
RECURSIVE expand_item(_, _)
RECURSIVE expand_elems(_, _, _, _)
RECURSIVE render_from(_, _, _, _)

\* CommandLineArgLike::add_to_command_line of each kind: the strings it adds.
expand(v, ctx) ==
    IF v.type \in CommandLineTypes THEN render_from(v, 1, <<>>, ctx)
    ELSE IF v.type \in ArtifactTypes THEN path_for(ctx, v.strs[1])
    ELSE Ok(v.strs)

\* One item: a list is expanded element by element, any other value through
\* its capability.
expand_item(item, ctx) ==
    IF item.type = "list" /\ ~item.provides THEN expand_elems(item.elems, 1, <<>>, ctx)
    ELSE IF as_command_line_err(item).tag = "Err" THEN Err(as_command_line_err(item).err)
    ELSE expand(as_command_line_err(item).handle.obj, ctx)

expand_elems(elems, i, acc, ctx) ==
    IF i > Len(elems) THEN Ok(acc)
    ELSE IF expand_item(elems[i], ctx).tag = "Err" THEN expand_item(elems[i], ctx)
    ELSE expand_elems(elems, i + 1, acc \o expand_item(elems[i], ctx).cli, ctx)

\* One step of the renderer's loop: item i of the value added to the builder.
render_step(v, i, cli, ctx) ==
    IF expand_item(v.elems[i], ctx).tag = "Err" THEN expand_item(v.elems[i], ctx)
    ELSE Ok(cli \o RenderItem(expand_item(v.elems[i], ctx).cli, v.opts))

\* The renderer's loop over the items, in insertion order.
render_from(v, i, cli, ctx) ==
    IF i > Len(v.elems) THEN Ok(cli)
    ELSE IF render_step(v, i, cli, ctx).tag = "Err" THEN render_step(v, i, cli, ctx)
    ELSE render_from(v, i + 1, render_step(v, i, cli, ctx).cli, ctx)

\* handle.add_to_command_line(&mut cli, &mut ctx)
add_to_command_line(h, cli, ctx) ==
    IF expand(h.obj, ctx).tag = "Err" THEN expand(h.obj, ctx)
    ELSE Ok(cli \o expand(h.obj, ctx).cli)

---------------------------------------------------------------------------
(* The test entry point: mod.rs, tester::get_command_line *)

\* let mut cli = Vec::<String>::new()
new_cli == <<>>

\* Vec::dedup: of neighbouring equal arguments only the first is kept.
RECURSIVE Dedup(_)
Dedup(s) ==
    IF Len(s) < 2 THEN s
    ELSE IF s[1] = s[2] THEN Dedup(Tail(s))
    ELSE <<s[1]>> \o Dedup(Tail(s))

\* Faulty variant: the argument list is deduplicated before it is returned.
get_command_line_dedup(value, ctx) ==
    IF IsSome(as_command_line(value))
        THEN [add_to_command_line(Unwrap(as_command_line(value)), new_cli, ctx)
                 EXCEPT !.cli = Dedup(@)]
    ELSE Err(as_command_line_err(value).err)

get_command_line(value, ctx) ==
    IF IsSome(as_command_line(value))
        THEN add_to_command_line(Unwrap(as_command_line(value)), new_cli, ctx)
    ELSE IF as_command_line_err(value).tag = "Err" THEN Err(as_command_line_err(value).err)
    ELSE add_to_command_line(as_command_line_err(value).handle, new_cli, ctx)

---------------------------------------------------------------------------
(* The Command-Line Value: typ.rs, and the constructor of mod.rs *)

ValueOk(v) == [tag |-> "Ok", value |-> v, err |-> NoError]
ValueErr(e) == [tag |-> "Err", value |-> NoValue, err |-> e]

RECURSIVE validate(_)
RECURSIVE validate_all(_, _)

\* An item is a value with the capability or a list of items; the error names
\* the first value that is neither.
validate(v) ==
    IF v.type = "list" /\ ~v.provides THEN validate_all(v.elems, 1)
    ELSE as_command_line_err(v).err

validate_all(vs, i) ==
    IF i > Len(vs) THEN NoError
    ELSE IF validate(vs[i]) # NoError THEN validate(vs[i])
    ELSE validate_all(vs, i + 1)

IsFrozen(v) == v.type = "FrozenStarlarkCommandLine"

\* StarlarkCommandLine::try_from_values_with_options
try_from_values_with_options(args, delimiter, format, prepend, quote) ==
    IF validate_all(args, 1) # NoError THEN ValueErr(validate_all(args, 1))
    ELSE ValueOk(MkValue("StarlarkCommandLine", <<>>, args, TRUE,
                         [delimiter |-> delimiter, format |-> format,
                          prepend |-> prepend, quote |-> quote]))

\* Faulty variant: delimiter and prepend change places on the way to the value.
cmd_args_swaps_prepend(args, delimiter, format, prepend, quote) ==
    IF try_map_parse(quote).tag = "Err" THEN ValueErr(try_map_parse(quote).err)
    ELSE try_from_values_with_options(args, prepend, format, delimiter,
                                      try_map_parse(quote).style)

\* Faulty variant: delimiter and format change places on the way to the value.
cmd_args_swaps_format(args, delimiter, format, prepend, quote) ==
    IF try_map_parse(quote).tag = "Err" THEN ValueErr(try_map_parse(quote).err)
    ELSE try_from_values_with_options(args, format, delimiter, prepend,
                                      try_map_parse(quote).style)

\* Faulty variant: a quote text that does not parse is taken as no quoting.
cmd_args_defaults_bad_quote(args, delimiter, format, prepend, quote) ==
    try_from_values_with_options(args, delimiter, format, prepend,
                                 try_map_parse(quote).style)

\* register_cmd_args::cmd_args: the quote text is parsed, and its failure
\* returned, before the value is built.
cmd_args(args, delimiter, format, prepend, quote) ==
    IF try_map_parse(quote).tag = "Err" THEN ValueErr(try_map_parse(quote).err)
    ELSE try_from_values_with_options(args, delimiter, format, prepend,
                                      try_map_parse(quote).style)

\* Faulty variant: add does not look at whether the value is frozen.
add_unchecked(clv, v) ==
    IF validate(v) # NoError THEN ValueErr(validate(v))
    ELSE ValueOk([clv EXCEPT !.elems = Append(@, v)])

\* cmd.add(value): only a mutable value takes further items.
add(clv, v) ==
    IF IsFrozen(clv) THEN ValueErr(FrozenMutationError)
    ELSE IF validate(v) # NoError THEN ValueErr(validate(v))
    ELSE ValueOk([clv EXCEPT !.elems = Append(@, v)])

\* The frozen type of each type that has one.
FrozenType(type) ==
    CASE type = "StarlarkCommandLine" -> "FrozenStarlarkCommandLine"
      [] type = "RunInfo" -> "FrozenRunInfo"
      [] type = "StarlarkOutputArtifact" -> "FrozenStarlarkOutputArtifact"
      [] type = "TransitiveSetArgsProjection" -> "FrozenTransitiveSetArgsProjection"
      [] OTHER -> type

\* Freeze: the value and everything it holds take their frozen types.
RECURSIVE freeze(_)
freeze(v) ==
    [v EXCEPT !.type = FrozenType(v.type),
              !.elems = [i \in 1..Len(v.elems) |-> freeze(v.elems[i])]]

---------------------------------------------------------------------------
(* Inputs *)

ItemValues ==
    {StrValue(s_a),
     ListValue(<<StrValue(s_b), StrValue(s_a_b)>>),
     ArtifactValue(<<"f">>),
     RunInfoValue(<<s_x, s_y>>),
     IntValue(s_one)}

ArgSeqs(S, n) == UNION {[1..k -> S] : k \in 0..n}

Delimiters == {None, Some(s_empty), Some(s_comma)}
Formats == {None, Some(s_template)}
Prepends == {None, Some(s_I)}
QuoteTexts == {None, Some(s_shell), Some(s_bogus)}

NoCall == [delimiter |-> None, format |-> None, prepend |-> None, quote |-> None]
NoLast == [op |-> "none", arg |-> NoValue, res |-> NoResult, ctx |-> UnixContext,
           was_frozen |-> FALSE]
NoDres == [op |-> "none", opt |-> None, hres |-> NoHandleResult, res |-> NoResult,
           ctx |-> UnixContext]

Resolvers == 1..NumResolvers
IdleResolver == [pc |-> "idle", ctx |-> UnixContext, idx |-> 0, cli |-> <<>>, res |-> NoResult]
NoResolvers == [p \in Resolvers |-> IdleResolver]

ResultOf(r) == IF r.tag = "Ok" THEN Ok(<<>>) ELSE Err(r.err)

---------------------------------------------------------------------------
(* Lifecycle of one Command-Line Value: construct, add, freeze, resolve *)

Init ==
    /\ cl = NoValue /\ given = <<>> /\ call = NoCall /\ last = NoLast
    /\ val = NoValue /\ dres = NoDres /\ shared = NoValue /\ rs = NoResolvers

CmdArgs ==
    /\ cl = NoValue
    /\ \E args \in ArgSeqs(ItemValues, MaxArgs), d \in Delimiters, f \in Formats,
          p \in Prepends, q \in QuoteTexts :
          /\ cl' = cmd_args(args, d, f, p, q).value
          /\ given' = IF cmd_args(args, d, f, p, q).tag = "Ok" THEN args ELSE <<>>
          /\ call' = [delimiter |-> d, format |-> f, prepend |-> p, quote |-> q]
          /\ last' = [NoLast EXCEPT !.op = "cmd_args",
                                    !.res = ResultOf(cmd_args(args, d, f, p, q))]
    /\ UNCHANGED <<val, dres, shared, rs>>

Add ==
    /\ cl # NoValue
    /\ IsFrozen(cl) \/ Len(cl.elems) < MaxItems
    /\ \E v \in ItemValues :
          /\ cl' = IF add(cl, v).tag = "Ok" THEN add(cl, v).value ELSE cl
          /\ given' = IF add(cl, v).tag = "Ok" THEN Append(given, v) ELSE given
          /\ last' = [NoLast EXCEPT !.op = "add", !.arg = v,
                                    !.res = ResultOf(add(cl, v)),
                                    !.was_frozen = IsFrozen(cl)]
    /\ UNCHANGED <<call, val, dres, shared, rs>>

Freeze ==
    /\ cl # NoValue
    /\ ~IsFrozen(cl)
    /\ cl' = freeze(cl)
    /\ last' = [NoLast EXCEPT !.op = "freeze", !.res = Ok(<<>>)]
    /\ UNCHANGED <<given, call, val, dres, shared, rs>>

Resolve ==
    /\ cl # NoValue
    /\ \E ctx \in Contexts :
          last' = [NoLast EXCEPT !.op = "resolve", !.res = get_command_line(cl, ctx),
                                 !.ctx = ctx, !.was_frozen = IsFrozen(cl)]
    /\ UNCHANGED <<cl, given, call, val, dres, shared, rs>>

Next == CmdArgs \/ Add \/ Freeze \/ Resolve

Spec == Init /\ [][Next]_vars

---------------------------------------------------------------------------
(* What a resolution is expected to return, stated from the caller's side *)

\* The strings an item stands for under a context.
RECURSIVE RawStrings(_, _)
RawStrings(item, ctx) ==
    CASE item.type = "list" ->
             Flatten([i \in 1..Len(item.elems) |-> RawStrings(item.elems[i], ctx)])
      [] item.type \in ArtifactTypes -> << <<"o", ctx.sep>> \o item.strs[1] >>
      [] OTHER -> item.strs

\* The per-item renderings, first item first.
RECURSIVE ConcatRenderings(_, _, _)
ConcatRenderings(items, opts, ctx) ==
    IF items = <<>> THEN <<>>
    ELSE RenderItem(RawStrings(Head(items), ctx), opts)
             \o ConcatRenderings(Tail(items), opts, ctx)

Resolved == last.op = "resolve"

\* C1: freezing is one-way. Once the value is frozen it stays frozen with the
\* same items and options whatever is done next, every add attempted on a
\* frozen value returns the frozen-mutation error, and resolve stays enabled:
\* its guard holds and the frozen value still hands out its capability.
C1_FreezeIsOneWay ==
    /\ [][IsFrozen(cl) => cl' = cl]_vars
    /\ [](last.op = "add" /\ last.was_frozen => last.res = Err(FrozenMutationError))
    /\ [](IsFrozen(cl) => (cl # NoValue /\ IsSome(as_command_line(cl))))

C1_Witness ==
    /\ last.op = "add" /\ last.was_frozen /\ last.res.tag = "Err"
    /\ IsFrozen(cl) /\ Len(cl.elems) = 1

\* C2: a resolution returns the concatenation of the renderings of the values
\* given to cmd_args and add, in the order given; equal items stay repeated,
\* and no items give the empty list, not an error.
C2_ResolvePreservesOrder ==
    Resolved =>
        /\ last.res = Ok(ConcatRenderings(given, cl.opts, last.ctx))
        /\ given = <<>> => last.res = Ok(<<>>)

C2_Witness ==
    /\ Resolved /\ Len(given) = 2 /\ given[1] = given[2]
    /\ cl.opts = NoOptions
    /\ last.res = Ok(<<s_a, s_a>>)

\* C6: the quote text is parsed by cmd_args. An unrecognized text fails the
\* call with the parse error and leaves no value; an absent text gives a value
\* without quoting and "shell" one with the Shell style, for as long as the
\* value lives; no resolution reports a quote parse error.
C6_QuoteParsedAtConstruction ==
    /\ (last.op = "cmd_args" /\ call.quote \notin {None, Some(s_shell)}) =>
           (cl = NoValue /\ last.res = Err(QuoteParseError(Unwrap(call.quote))))
    /\ cl # NoValue =>
           /\ call.quote \in {None, Some(s_shell)}
           /\ cl.opts.quote = IF call.quote = None THEN None ELSE Some("Shell")
    /\ Resolved => last.res.err.kind # "QuoteStyleParse"

C6_Witness ==
    /\ last.op = "cmd_args" /\ call.quote = Some(s_bogus)
    /\ last.res.tag = "Err" /\ cl = NoValue

\* C7: with prepend set and no delimiter the output is the output without
\* prepend with the prepend token, as an argument of its own, before each of
\* its arguments: twice as many arguments, the token at every odd position.
C7_PrependBeforeEachArgument ==
    (Resolved /\ IsSome(call.prepend) /\ call.delimiter = None) =>
        LET out == last.res.cli
            base == ConcatRenderings(given, [cl.opts EXCEPT !.prepend = None], last.ctx)
        IN /\ last.res.tag = "Ok"
           /\ Len(out) = 2 * Len(base)
           /\ \A k \in 1..Len(base) :
                  /\ out[2 * k - 1] = QuoteArg(cl.opts.quote, Unwrap(call.prepend))
                  /\ out[2 * k] = base[k]

C7_Witness ==
    /\ Resolved /\ call.prepend = Some(s_I) /\ call.delimiter = None
    /\ call.format = None /\ call.quote = None
    /\ given = <<RunInfoValue(<<s_x, s_y>>)>>
    /\ last.res = Ok(<<s_I, s_x, s_I, s_y>>)

\* C8: format is applied to each raw string of an item; under a delimiter the
\* item's formatted strings are joined into exactly one argument, without a
\* delimiter each formatted string is an argument of its own.
FormattedStrings(item, ctx) ==
    LET raws == RawStrings(item, ctx)
    IN IF IsSome(call.format)
           THEN [j \in 1..Len(raws) |-> Format(Unwrap(call.format), raws[j])]
           ELSE raws

---------------------------------------------------------------------------
(* Dispatch of single values: each operation applied to each kind of value *)

\* A caller of the frozen dispatch: it renders through the frozen capability
\* and has nothing to render when the capability is absent.
CapabilityAbsent == [kind |-> "CapabilityAbsent", repr |-> <<>>]

resolve_frozen(fv, ctx) ==
    IF IsSome(as_frozen_command_line(fv))
        THEN add_to_command_line(Unwrap(as_frozen_command_line(fv)), new_cli, ctx)
    ELSE Err(CapabilityAbsent)

InitDispatch ==
    /\ val \in Values /\ dres = NoDres
    /\ cl = NoValue /\ given = <<>> /\ call = NoCall /\ last = NoLast
    /\ shared = NoValue /\ rs = NoResolvers

DoAsCommandLine ==
    /\ \E v \in Values :
          /\ val' = v
          /\ dres' = [NoDres EXCEPT !.op = "as_command_line", !.opt = as_command_line(v)]
    /\ UNCHANGED <<cl, given, call, last, shared, rs>>

DoAsCommandLineErr ==
    /\ \E v \in Values :
          /\ val' = v
          /\ dres' = [NoDres EXCEPT !.op = "as_command_line_err",
                                    !.hres = as_command_line_err(v)]
    /\ UNCHANGED <<cl, given, call, last, shared, rs>>

\* The frozen dispatch is given the value as frozen.
DoAsFrozenCommandLine ==
    /\ \E v \in Values :
          /\ val' = v
          /\ dres' = [NoDres EXCEPT !.op = "as_frozen_command_line",
                                    !.opt = as_frozen_command_line(freeze(v))]
    /\ UNCHANGED <<cl, given, call, last, shared, rs>>

DoGetCommandLine ==
    /\ \E v \in Values, ctx \in Contexts :
          /\ val' = v
          /\ dres' = [NoDres EXCEPT !.op = "get_command_line",
                                    !.res = get_command_line(v, ctx), !.ctx = ctx]
    /\ UNCHANGED <<cl, given, call, last, shared, rs>>

DoResolveFrozen ==
    /\ \E v \in Values, ctx \in Contexts :
          /\ val' = v
          /\ dres' = [NoDres EXCEPT !.op = "resolve_frozen",
                                    !.res = resolve_frozen(freeze(v), ctx), !.ctx = ctx]
    /\ UNCHANGED <<cl, given, call, last, shared, rs>>

NextDispatch ==
    \/ DoAsCommandLine \/ DoAsCommandLineErr \/ DoAsFrozenCommandLine
    \/ DoGetCommandLine \/ DoResolveFrozen

SpecDispatch == InitDispatch /\ [][NextDispatch]_vars

C5_StrictAccessor ==
    /\ dres.op = "as_command_line_err" =>
           IF as_command_line(val) = None
               THEN dres.hres = HandleErr(InvalidItemType(to_repr(val)))
               ELSE dres.hres = HandleOk(Unwrap(as_command_line(val)))
    /\ (dres.op = "get_command_line" /\ as_command_line(val) = None) =>
           dres.res = Err(InvalidItemType(to_repr(val)))

C5_Witness ==
    /\ dres.op = "get_command_line"
    /\ val = SampleValue("int", FALSE)
    /\ dres.res = Err(InvalidItemType(s_one))

\* C9: the mutable dispatch answers a string by the string capability, then a
\* RunInfo, FrozenRunInfo, LabelRelativePath or StarlarkTargetLabel by its
\* downcast, whatever the value itself provides; only a value of none of these
\* kinds is asked for its own capability, and absent is returned only when
\* that fails too.
SpecificKinds == {"RunInfo", "FrozenRunInfo", "LabelRelativePath", "StarlarkTargetLabel"}

C9_FallbackLast ==
    dres.op = "as_command_line" =>
        dres.opt = IF val.type = "str" THEN Some(Handle("unpack_starlark_str", val))
                   ELSE IF val.type \in SpecificKinds THEN Some(Handle("downcast_ref", val))
                   ELSE IF val.provides THEN Some(Handle("request_value", val))
                   ELSE None

C9_Witness ==
    /\ dres.op = "as_command_line"
    /\ val = SampleValue("RunInfo", TRUE)
    /\ dres.opt = Some(Handle("downcast_ref", val))

\* C10: the frozen dispatch returns a handle exactly for a frozen string and
\* the seven listed frozen kinds, and absent for every other frozen value,
\* also one that provides the capability itself; it has no failure.
FrozenKinds ==
    {"FrozenStarlarkCommandLine", "StarlarkArtifact", "FrozenStarlarkOutputArtifact",
     "ResolvedStringWithMacros", "FrozenRunInfo", "LabelRelativePath",
     "FrozenTransitiveSetArgsProjection"}

C10_FrozenDispatch ==
    dres.op = "as_frozen_command_line" =>
        /\ dres.opt =
               IF freeze(val).type = "str"
                   THEN Some(Handle("downcast_frozen_starlark_str", freeze(val)))
               ELSE IF freeze(val).type \in FrozenKinds
                   THEN Some(Handle("downcast_frozen_ref", freeze(val)))
               ELSE None
        /\ dres.hres = NoHandleResult /\ dres.res = NoResult

C10_Witness ==
    /\ dres.op = "as_frozen_command_line"
    /\ val = SampleValue("External", TRUE)
    /\ dres.opt = None

---------------------------------------------------------------------------
(* Concurrent resolutions of one frozen Command-Line Value *)

ConcItems == {StrValue(s_a), ArtifactValue(<<"f">>), ArtifactValue(<<>>)}

SharedValues ==
    {freeze(cmd_args(args, None, None, p, None).value) :
         args \in ArgSeqs(ConcItems, MaxShared), p \in Prepends}

\* Faulty variant: the list of the resolver's previous call is used again.
start_resolution_stale_cli(r, value, ctx) ==
    IF IsSome(as_command_line(value))
        THEN [pc |-> "running", ctx |-> ctx, idx |-> 1, cli |-> r.cli, res |-> NoResult]
    ELSE [pc |-> "done", ctx |-> ctx, idx |-> 0, cli |-> r.cli,
          res |-> Err(as_command_line_err(value).err)]

\* get_command_line up to the dispatch: a context and an empty list of the
\* call's own, then the capability of the value or the strict accessor's error.
start_resolution(r, value, ctx) ==
    IF IsSome(as_command_line(value))
        THEN [pc |-> "running", ctx |-> ctx, idx |-> 1, cli |-> new_cli, res |-> NoResult]
    ELSE [pc |-> "done", ctx |-> ctx, idx |-> 0, cli |-> new_cli,
          res |-> Err(as_command_line_err(value).err)]

\* One item rendered into the call's list; a failure ends the call.
step_resolution(r, value) ==
    IF render_step(value, r.idx, r.cli, r.ctx).tag = "Err"
        THEN [r EXCEPT !.pc = "done", !.res = render_step(value, r.idx, r.cli, r.ctx)]
    ELSE [r EXCEPT !.idx = r.idx + 1, !.cli = render_step(value, r.idx, r.cli, r.ctx).cli]

\* get_command_line's end: Ok(cli)
finish_resolution(r) == [r EXCEPT !.pc = "done", !.res = Ok(r.cli)]

InitConc ==
    /\ shared \in SharedValues /\ rs = NoResolvers
    /\ cl = NoValue /\ given = <<>> /\ call = NoCall /\ last = NoLast
    /\ val = NoValue /\ dres = NoDres

StartResolve(p) ==
    /\ rs[p].pc \in {"idle", "done"}
    /\ \E ctx \in Contexts : rs' = [rs EXCEPT ![p] = start_resolution(rs[p], shared, ctx)]
    /\ UNCHANGED <<shared, cl, given, call, last, val, dres>>

StepResolve(p) ==
    /\ rs[p].pc = "running"
    /\ rs[p].idx <= Len(shared.elems)
    /\ rs' = [rs EXCEPT ![p] = step_resolution(rs[p], shared)]
    /\ UNCHANGED <<shared, cl, given, call, last, val, dres>>

FinishResolve(p) ==
    /\ rs[p].pc = "running"
    /\ rs[p].idx > Len(shared.elems)
    /\ rs' = [rs EXCEPT ![p] = finish_resolution(rs[p])]
    /\ UNCHANGED <<shared, cl, given, call, last, val, dres>>

NextConc == \E p \in Resolvers : StartResolve(p) \/ StepResolve(p) \/ FinishResolve(p)

SpecConc == InitConc /\ [][NextConc]_vars

\* C3: resolution reads and never writes. However the resolutions of the
\* shared frozen value interleave, the value does not change, a running
\* resolution keeps its context, a step of one resolution leaves every other
\* untouched, and each finished resolution returns what resolving the value
\* alone against its context returns.
C3_ResolutionReadOnly ==
    /\ [](\A p \in Resolvers :
              rs[p].pc = "done" => rs[p].res = get_command_line(shared, rs[p].ctx))
    /\ [][shared' = shared]_vars
    /\ [][\A p \in Resolvers : rs[p].pc = "running" => rs'[p].ctx = rs[p].ctx]_vars
    /\ [][\A p, q \in Resolvers : (p # q /\ rs'[p] # rs[p]) => rs'[q] = rs[q]]_vars

C3_Witness ==
    /\ rs[1].pc = "done" /\ rs[1].res.tag = "Ok" /\ Len(rs[1].res.cli) = 2
    /\ rs[2].pc = "running" /\ rs[2].idx = 2 /\ rs[2].ctx # rs[1].ctx

====
